---- MODULE Spec2Model ----
(***************************************************************************)
(* Model of the spaced-repetition core of the Dutch learning bot.          *)
(*                                                                         *)
(* float64 values (stability, difficulty, the FSRS weights) are fixed-point *)
(* integers with four decimals: the integer v stands for v / Scale.        *)
(* time.Time values are integers counting minutes; the zero time.Time is   *)
(* ZeroTime.  time.Now() is the variable now, which only moves forward.    *)
(*                                                                         *)
(* Specifications: Spec (the life of one card), SpecNumeric (the numeric   *)
(* functions and Review on chosen inputs), SpecSelect (GetNextDueWord on   *)
(* chosen stores), SpecOptions (generateMultipleChoiceOptions on chosen    *)
(* vocabularies) and SpecSession (one user's sessions, rating callbacks    *)
(* and the store, the goroutines interleaved), SpecRemind (the reminder     *)
(* service and one user), SpecPrefs (the settings toggles and the grammar  *)
(* tip of a session) and SpecHandlers (the callback goroutines and the     *)
(* maps they share).                                                       *)
(***************************************************************************)
EXTENDS Integers, Sequences, FiniteSets, TLC

VARIABLES
    now,        \* the wall clock, what time.Now() returns
    card,       \* UserProgress.fsrsCard
    updatedAt,  \* UserProgress.updatedAt
    log,        \* the ReviewLog of the last Review call, NoLog before the first
    call,       \* the last Review call: the card it was given, its arguments, the clock
    arg,        \* inputs of the function under evaluation
    res,        \* its outputs, NoRes before an evaluation
    words,      \* the words table: the ids of the vocabulary's words
    rows,       \* the user_progress table: the user's progress rows
    history,    \* the review_history table, in insertion order
    sessions,   \* the LearningSession objects created so far
    activeSessions, \* BotHandler.activeSessions[user]: a session's number or 0
    tasks,      \* the rating goroutines started so far
    clicks,     \* clickTracker: the user's actions clicked within the last second
    prefs,      \* the user's user_preferences rows: key to stored text
    lastActive, \* User.lastActive
    reminderState, \* ReminderUseCase.reminderState[user]
    ticker,     \* the time of the reminder ticker's next tick
    reminded    \* the last reminder sent to the user, NoReminder before the first

appVars == <<words, rows, history, sessions, activeSessions, tasks, clicks>>
remVars == <<prefs, lastActive, reminderState, ticker, reminded>>
vars == <<now, card, updatedAt, log, call, arg, res, appVars, remVars>>

(***************************************************************************)
(* Bounds of the model.                                                    *)
(***************************************************************************)
MaxClock == 1       \* the clock runs over 0..MaxClock minutes
MaxReviews == 4     \* reviews applied to one card
MaxQuarter == 16    \* stability inputs k/4 days, k in 1..MaxQuarter
MaxExp == 6         \* stability inputs 10^e / Scale, e in 0..MaxExp
MaxRecent == 11     \* rows reviewed in the last ten minutes and due again
MaxOld == 2         \* due rows reviewed ten minutes ago or earlier
MaxNewWords == 2    \* words the user has no row for
MaxSessions == 2    \* sessions started with the learn command
MaxOthers == 3      \* words of the vocabulary besides the asked one
MaxTasks == 2       \* rating goroutines started
MaxHandlers == 3    \* update goroutines of the user
MaxTicks == 73      \* the reminder ticker runs until MaxTicks half hours after midnight

(***************************************************************************)
(* Fixed-point arithmetic                                                  *)
(***************************************************************************)
Scale == 10^4

Max(a, b) == IF a >= b THEN a ELSE b
Min(a, b) == IF a <= b THEN a ELSE b
Abs(a) == IF a < 0 THEN -a ELSE a

\* a * b / Scale for a, b >= 0, rounded to nearest, without leaving 32 bits
MulNN(a, b) ==
    LET ah == a \div Scale
        al == a % Scale
        bh == b \div Scale
        bl == b % Scale
    IN  ah * bh * Scale + ah * bl + al * bh + (al * bl + Scale \div 2) \div Scale

\* float64 multiplication
Mul(a, b) ==
    IF (a < 0) = (b < 0) THEN MulNN(Abs(a), Abs(b)) ELSE -MulNN(Abs(a), Abs(b))

\* float64 division a / b for a >= 0, b > 0, rounded to nearest
DivNN(a, b) ==
    LET q == a \div b
        r == a % b
    IN  q * Scale + (r * Scale + b \div 2) \div b

\* math.Round: to the nearest integer, halves away from zero; the result is
\* the integer itself, not a fixed-point value
Round(x) ==
    IF x >= 0 THEN (x + Scale \div 2) \div Scale
    ELSE -((-x + Scale \div 2) \div Scale)

\* sum of the Taylor series of e^x from term number n on, term being x^(n-1)/(n-1)!
RECURSIVE ExpSeries(_, _, _)
ExpSeries(x, term, n) ==
    IF term = 0 THEN 0
    ELSE term + ExpSeries(x, (Mul(term, x) + n \div 2) \div n, n + 1)

RECURSIVE Exp(_)
\* math.Exp
Exp(x) ==
    IF x < 0 THEN DivNN(Scale, Exp(-x))
    ELSE IF x > 2 * Scale THEN LET h == Exp(x \div 2) IN
             IF x % 2 = 0 THEN Mul(h, h) ELSE Mul(Mul(h, h), Scale + 1)
    ELSE ExpSeries(x, Scale, 1)

\* ln m for m in [1, 2): 2 * (z + z^3/3 + z^5/5 + ...), z = (m-1)/(m+1)
RECURSIVE AtanhSeries(_, _, _)
AtanhSeries(z2, pw, n) ==
    IF pw = 0 THEN 0
    ELSE pw \div n + AtanhSeries(z2, Mul(pw, z2), n + 2)

\* ln 2
Ln2 == (Scale * 6931) \div 10^4

RECURSIVE Ln(_)
\* math.Log for x > 0
Ln(x) ==
    IF x >= 2 * Scale THEN Ln2 + Ln(x \div 2)
    ELSE IF x < Scale THEN Ln(2 * x) - Ln2
    ELSE LET z == DivNN(x - Scale, x + Scale)
         IN  2 * AtanhSeries(Mul(z, z), z, 1)

\* math.Pow(x, y) for x >= 0
Pow(x, y) == IF x = 0 THEN 0 ELSE Exp(Mul(y, Ln(x)))

(***************************************************************************)
(* FSRS parameters (fsrs.go), four decimals each                           *)
(***************************************************************************)
defaultWeight0 == 4072
defaultWeight1 == 11829
defaultWeight4 == 72102
defaultWeight5 == 5316
defaultWeight6 == 10651
defaultWeight7 == 234
defaultWeight8 == 16160
defaultWeight9 == 1544
defaultWeight10 == 10824
defaultWeight11 == 19813
defaultWeight12 == 953
requestRetention == 9000

StateNew == "new"
StateLearning == "learning"
StateReview == "review"
StateRelearning == "relearning"
States == {StateNew, StateLearning, StateReview, StateRelearning}

Again == 1
Hard == 2
Good == 3
Easy == 4
Ratings == {Again, Hard, Good, Easy}

(***************************************************************************)
(* time.Time and time.Duration, in minutes                                 *)
(***************************************************************************)
Minute == 1
Hour == 60 * Minute
MinutesPerDay == 24 * Hour
\* the zero time.Time (year 1), some two thousand years before the clock's 0
ZeroTime == -(2000 * 365 * MinutesPerDay)
\* the largest time.Duration (2^63 - 1 ns): 106751 days, 23 hours, 47 minutes
MaxDuration == 106751 * MinutesPerDay + 23 * Hour + 47 * Minute

\* t.Sub(u): the difference, saturated at the largest and smallest Duration
Sub(t, u) == Max(Min(t - u, MaxDuration), -MaxDuration)

\* int(d.Hours() / 24): whole days of a duration, truncated toward zero
Days(d) == IF d >= 0 THEN d \div MinutesPerDay ELSE -((-d) \div MinutesPerDay)

(***************************************************************************)
(* The numeric formulas                                                    *)
(***************************************************************************)
\* initDifficulty calculates initial difficulty based on rating
initDifficulty(rating) ==
    Max(defaultWeight4 - defaultWeight5 * (rating - 3), Scale)

\* initStability calculates initial stability based on rating
initStability(rating) ==
    Max(defaultWeight0 + defaultWeight1 * (rating - 1), Scale \div 10)

\* math.Exp(defaultWeight8)
ExpWeight8 == Exp(defaultWeight8)
\* math.Exp((1-requestRetention)*defaultWeight10) - 1
RetentionTerm == Exp(Mul(Scale - requestRetention, defaultWeight10)) - Scale
\* -math.Log(requestRetention) and -math.Log(0.9)
LogRetention == -Ln(requestRetention)
Log09 == -Ln((9 * Scale) \div 10)

\* nextStability with the growth taken off instead of added
nextStabilityShrinks(difficulty, stability, rating) ==
    LET hardPenalty == IF rating = Hard THEN defaultWeight6 ELSE Scale
        easyBonus == IF rating = Easy THEN defaultWeight7 ELSE Scale
        growth == Mul(Mul(Mul(Mul(Mul(ExpWeight8,
                                      11 * Scale - difficulty),
                                  Pow(stability, defaultWeight9)),
                              RetentionTerm),
                          hardPenalty),
                      easyBonus)
    IN  Mul(stability, Scale - growth)

\* nextStability calculates next stability value
nextStability(difficulty, stability, rating) ==
    LET hardPenalty == IF rating = Hard THEN defaultWeight6 ELSE Scale
        easyBonus == IF rating = Easy THEN defaultWeight7 ELSE Scale
        growth == Mul(Mul(Mul(Mul(Mul(ExpWeight8,
                                      11 * Scale - difficulty),
                                  Pow(stability, defaultWeight9)),
                              RetentionTerm),
                          hardPenalty),
                      easyBonus)
    IN  Mul(stability, Scale + growth)

\* nextDifficulty without the clamp to [1, 10]
nextDifficultyUnclamped(difficulty, rating) ==
    LET deltaD == -defaultWeight11 * (rating - 3)
        newDifficulty == difficulty + deltaD
    IN  newDifficulty + Mul(defaultWeight12, 5 * Scale - newDifficulty)

\* nextDifficulty calculates next difficulty value
nextDifficulty(difficulty, rating) ==
    LET deltaD == -defaultWeight11 * (rating - 3)
        newDifficulty == difficulty + deltaD
        meanReversion == Mul(defaultWeight12, 5 * Scale - newDifficulty)
    IN  Max(Min(newDifficulty + meanReversion, 10 * Scale), Scale)

\* calculateInterval without the floor of one day
calculateIntervalNoFloor(stability) ==
    Round((stability \div Log09) * LogRetention
          + ((stability % Log09) * LogRetention) \div Log09)

\* calculateInterval calculates review interval based on stability; the
\* quotient stability * ln(requestRetention) / ln(0.9) is taken exactly
calculateInterval(stability) ==
    LET q == stability \div Log09
        r == stability % Log09
        interval == q * LogRetention + (r * LogRetention) \div Log09
    IN  Max(Round(interval), 1)

(***************************************************************************)
(* FSRSCard                                                                *)
(***************************************************************************)
\* NewFSRSCard creates a new card with default FSRS parameters
NewFSRSCard(clk) ==
    [dueDate |-> clk, stability |-> Scale, difficulty |-> 5 * Scale,
     lastReview |-> ZeroTime, state |-> StateNew, reviewCount |-> 0, lapses |-> 0]

\* reviewNew that forgets to initialise the difficulty
reviewNewKeepsDifficulty(c, rating, clk) ==
    CASE rating \in {Again, Hard, Good} ->
            [c EXCEPT !.state = StateLearning,
                      !.dueDate = clk + (CASE rating = Again -> 1
                                           [] rating = Hard -> 5
                                           [] OTHER -> 10) * Minute]
      [] rating = Easy ->
            [c EXCEPT !.state = StateReview, !.stability = initStability(rating),
                      !.dueDate = clk + calculateInterval(initStability(rating))
                                        * MinutesPerDay]
      [] OTHER -> c

reviewNew(c, rating, clk) ==
    LET d == [c EXCEPT !.difficulty = initDifficulty(rating)]
    IN  CASE rating = Again ->
                [d EXCEPT !.state = StateLearning, !.dueDate = clk + 1 * Minute]
          [] rating = Hard ->
                [d EXCEPT !.state = StateLearning, !.dueDate = clk + 5 * Minute]
          [] rating = Good ->
                [d EXCEPT !.state = StateLearning, !.dueDate = clk + 10 * Minute]
          [] rating = Easy ->
                LET s == initStability(rating)
                IN  [d EXCEPT !.state = StateReview, !.stability = s,
                              !.dueDate = clk + calculateInterval(s) * MinutesPerDay]
          [] OTHER -> d

\* reviewLearning that lets Hard graduate the card like Good
reviewLearningHardGraduates(c, rating, clk) ==
    IF rating \in {Hard, Good, Easy}
    THEN LET s == initStability(IF rating = Easy THEN Easy ELSE Good)
         IN  [c EXCEPT !.state = StateReview, !.stability = s,
                       !.dueDate = clk + calculateInterval(s) * MinutesPerDay]
    ELSE [c EXCEPT !.state = StateLearning, !.dueDate = clk + 1 * Minute]

\* reviewLearning that counts Again as a lapse, as reviewReview does
reviewLearningCountsLapse(c, rating, clk) ==
    CASE rating = Again ->
            [c EXCEPT !.lapses = c.lapses + 1, !.state = StateLearning,
                      !.dueDate = clk + 1 * Minute]
      [] rating = Hard ->
            [c EXCEPT !.state = StateLearning, !.dueDate = clk + 5 * Minute]
      [] OTHER ->
            LET s == initStability(rating)
            IN  [c EXCEPT !.state = StateReview, !.stability = s,
                          !.dueDate = clk + calculateInterval(s) * MinutesPerDay]

reviewLearning(c, rating, clk) ==
    CASE rating = Again ->
            [c EXCEPT !.state = StateLearning, !.dueDate = clk + 1 * Minute]
      [] rating = Hard ->
            [c EXCEPT !.state = StateLearning, !.dueDate = clk + 5 * Minute]
      [] rating = Good ->
            LET s == initStability(Good)
            IN  [c EXCEPT !.state = StateReview, !.stability = s,
                          !.dueDate = clk + calculateInterval(s) * MinutesPerDay]
      [] rating = Easy ->
            LET s == initStability(Easy)
            IN  [c EXCEPT !.state = StateReview, !.stability = s,
                          !.dueDate = clk + calculateInterval(s) * MinutesPerDay]
      [] OTHER -> c

\* reviewReview that sends a forgotten card to Relearning without counting
\* the lapse
reviewReviewForgetsLapse(c, rating, elapsed, clk) ==
    IF rating = Again
    THEN [c EXCEPT !.state = StateRelearning, !.dueDate = clk + 5 * Minute]
    ELSE [c EXCEPT !.state = StateReview,
                   !.stability = nextStability(c.difficulty, c.stability, rating),
                   !.difficulty = nextDifficulty(c.difficulty, rating),
                   !.dueDate = clk + calculateInterval(
                                   nextStability(c.difficulty, c.stability, rating))
                               * MinutesPerDay]

reviewReview(c, rating, elapsed, clk) ==
    IF rating = Again
    THEN [c EXCEPT !.lapses = c.lapses + 1, !.state = StateRelearning,
                   !.dueDate = clk + 5 * Minute]
    ELSE LET s == nextStability(c.difficulty, c.stability, rating)
         IN  [c EXCEPT !.state = StateReview, !.stability = s,
                       !.difficulty = nextDifficulty(c.difficulty, rating),
                       !.dueDate = clk + calculateInterval(s) * MinutesPerDay]

\* the switch on card.state in Review
reviewByState(c, rating, elapsed, clk) ==
    CASE c.state = StateNew -> reviewNew(c, rating, clk)
      [] c.state \in {StateLearning, StateRelearning} -> reviewLearning(c, rating, clk)
      [] c.state = StateReview -> reviewReview(c, rating, elapsed, clk)
      [] OTHER -> c

\* elapsed and scheduled days of Review, for the log entry
elapsedDays(c, reviewTime) == Max(Days(Sub(reviewTime, c.lastReview)), 0)
scheduledDays(c) ==
    IF c.dueDate # ZeroTime THEN Max(Days(Sub(c.dueDate, c.lastReview)), 0) ELSE 0

\* Review that stamps the card with the clock reading instead of reviewTime
ReviewStampsClock(c, rating, reviewTime, clk) ==
    [Card |-> [reviewByState(c, rating, elapsedDays(c, reviewTime), clk)
                   EXCEPT !.lastReview = clk, !.reviewCount = c.reviewCount + 1],
     LogEntry |-> [Rating |-> rating, ScheduledDays |-> scheduledDays(c),
                   ElapsedDays |-> elapsedDays(c, reviewTime),
                   ReviewTime |-> reviewTime, State |-> c.state]]

\* Review processes a review and returns updated card state: the card is
\* reviewed with rating at reviewTime while the wall clock reads clk
Review(c, rating, reviewTime, clk) ==
    LET elapsed == elapsedDays(c, reviewTime)
        scheduled == scheduledDays(c)
        stateCard == reviewByState(c, rating, elapsed, clk)
        newCard == [stateCard EXCEPT !.lastReview = reviewTime,
                                     !.reviewCount = c.reviewCount + 1]
    IN  [Card |-> newCard,
         LogEntry |-> [Rating |-> rating, ScheduledDays |-> scheduled,
                       ElapsedDays |-> elapsed, ReviewTime |-> reviewTime,
                       State |-> c.state]]

(***************************************************************************)
(* Choosing the next word: GetNextDueWord                                  *)
(***************************************************************************)
maxWords == 10
TenMinutes == 10 * Minute

\* a progress record that is not in the store yet has id 0
NewUserProgress(word, clk) == [id |-> 0, word |-> word, card |-> NewFSRSCard(clk)]

NoSession ==
    [word |-> 0, progress |-> NewUserProgress(0, ZeroTime), startTime |-> ZeroTime]

Take(s, n) == SubSeq(s, 1, Min(Len(s), n))

\* ORDER BY due_date ASC: the orders of the rows S by due date, rows of equal
\* due date in any order
RECURSIVE OrderedByDue(_)
OrderedByDue(S) ==
    IF S = {} THEN {<<>>}
    ELSE LET first == {r \in S : \A q \in S : r.card.dueDate <= q.card.dueDate}
         IN  UNION {{<<r>> \o t : t \in OrderedByDue(S \ {r})} : r \in first}

\* ORDER BY RANDOM(): the orders of the set S
RECURSIVE OrderedAtRandom(_)
OrderedAtRandom(S) ==
    IF S = {} THEN {<<>>}
    ELSE UNION {{<<w>> \o t : t \in OrderedAtRandom(S \ {w})} : w \in S}

\* FindDueWords without the due date condition
FindAllRows(table, clk, limit) == {Take(s, limit) : s \in OrderedByDue(table)}

\* the results FindDueWords can return: the user's rows due at clk, earliest
\* due first, at most limit of them
FindDueWords(table, clk, limit) ==
    {Take(s, limit) : s \in OrderedByDue({r \in table : r.card.dueDate <= clk})}

\* the results FindNewWords can return: new progress records for at most limit
\* of the words the user has no row for, in random order
FindNewWords(table, vocabulary, clk, limit) ==
    {[i \in 1..Min(Len(s), limit) |-> NewUserProgress(s[i], clk)] :
        s \in OrderedAtRandom(vocabulary \ {r.word : r \in table})}

\* due words first; new words only when fewer than limit words are due
getAvailableWordsForLearning(table, vocabulary, clk, limit) ==
    UNION {IF Len(due) < limit
           THEN {due \o new :
                    new \in FindNewWords(table, vocabulary, clk, limit - Len(due))}
           ELSE {due}
           : due \in FindDueWords(table, clk, limit)}

\* LastReview().After(tenMinutesAgo)
ReviewedRecently(p, clk) == p.card.lastReview > clk - TenMinutes

\* selectBestWordForLearning returning the first candidate whatever it is
selectFirstWord(allProgress, clk) == allProgress[1]

\* the first record of the first non-empty class: persisted and not reviewed
\* in the last ten minutes, then new, then reviewed in the last ten minutes
selectBestWordForLearning(allProgress, clk) ==
    LET newWords == SelectSeq(allProgress, LAMBDA p : p.id = 0)
        recentWords == SelectSeq(allProgress,
                           LAMBDA p : p.id # 0 /\ ReviewedRecently(p, clk))
        dueWords == SelectSeq(allProgress,
                           LAMBDA p : p.id # 0 /\ ~ReviewedRecently(p, clk))
    IN  IF Len(dueWords) > 0 THEN dueWords[1]
        ELSE IF Len(newWords) > 0 THEN newWords[1]
        ELSE IF Len(recentWords) > 0 THEN recentWords[1]
        ELSE allProgress[1]

\* the outcomes of GetNextDueWord: no session and no error when nothing is
\* available; else a session for the selected record, or the error of
\* generateMultipleChoiceOptions.  Each outcome carries the candidate list.
GetNextDueWord(table, vocabulary, clk) ==
    UNION {IF Len(allProgress) = 0
           THEN {[err |-> FALSE, session |-> NoSession,
                  allProgress |-> allProgress]}
           ELSE LET selected == selectBestWordForLearning(allProgress, clk)
                IN  {[err |-> TRUE, session |-> NoSession,
                      allProgress |-> allProgress],
                     [err |-> FALSE,
                      session |-> [word |-> selected.word,
                                   progress |-> selected, startTime |-> clk],
                      allProgress |-> allProgress]}
           : allProgress \in
                getAvailableWordsForLearning(table, vocabulary, clk, maxWords)}

(***************************************************************************)
(* The four options of a question: generateMultipleChoiceOptions           *)
(***************************************************************************)
QuestionTypeEnglishToDutch == "english_to_dutch"
QuestionTypeDutchToEnglish == "dutch_to_english"

\* the side of the word the options are taken from
Asked(w, questionType) ==
    IF questionType = QuestionTypeEnglishToDutch THEN w.dutch ELSE w.english

Range(s) == {s[i] : i \in 1..Len(s)}

\* the scan of the category's words: every other word's translation that is
\* not the correct answer, repetitions included
CategoryAnswers(word, questionType, categoryWords) ==
    LET correctAnswer == Asked(word, questionType)
        kept == SelectSeq(categoryWords,
                    LAMBDA w : w.id # word.id
                               /\ Asked(w, questionType) # correctAnswer)
    IN  [i \in 1..Len(kept) |-> Asked(kept[i], questionType)]

\* the scan of all words from the i-th on: translations not yet collected are
\* added until there are three
RECURSIVE AllWordsAnswers(_, _, _, _, _)
AllWordsAnswers(wrongAnswers, word, questionType, allWords, i) ==
    IF i > Len(allWords) THEN wrongAnswers
    ELSE LET candidate == Asked(allWords[i], questionType)
             added == IF /\ allWords[i].id # word.id
                         /\ candidate # Asked(word, questionType)
                         /\ candidate \notin Range(wrongAnswers)
                      THEN Append(wrongAnswers, candidate)
                      ELSE wrongAnswers
         IN  IF Len(added) >= 3 THEN added
             ELSE AllWordsAnswers(added, word, questionType, allWords, i + 1)

Swap(s, i, j) == [s EXCEPT ![i] = s[j], ![j] = s[i]]

\* the Fisher-Yates loop from position i down: every draw, from the random
\* source or from the clock, is some position up to i
RECURSIVE Shuffle(_, _)
Shuffle(s, i) ==
    IF i <= 1 THEN {s}
    ELSE UNION {Shuffle(Swap(s, i, j), i - 1) : j \in 1..i}

\* the correct answer at correctIndex (counted from 0), the wrong answers in
\* the other places in order
Options(correctAnswer, selectedWrong, correctIndex) ==
    [i \in 1..4 |-> IF i - 1 = correctIndex THEN correctAnswer
                    ELSE selectedWrong[IF i - 1 < correctIndex THEN i ELSE i - 1]]

NoOptions(status) == [status |-> status, options |-> <<>>, correctIndex |-> 0]

\* the drawing of correctIndex: Int64 is called on the number drawn before
\* the error is tested, and a failed draw returns no number
correctIndex(correctAnswer, selectedWrong, fails) ==
    IF fails = "correctIndex" THEN {NoOptions("panic")}
    ELSE {[status |-> "ok", options |-> Options(correctAnswer, selectedWrong, k),
           correctIndex |-> k] : k \in 0..3}

\* the outcomes of generateMultipleChoiceOptions for a word, the words of its
\* category and all words; fails names the draw at which the random source
\* fails: "none", "shuffle" or "correctIndex"
generateMultipleChoiceOptions(word, questionType, categoryWords, allWords, fails) ==
    LET correctAnswer == Asked(word, questionType)
        fromCategory == CategoryAnswers(word, questionType, categoryWords)
        wrongAnswers ==
            IF Len(fromCategory) < 3
            THEN AllWordsAnswers(fromCategory, word, questionType, allWords, 1)
            ELSE fromCategory
    IN  IF Len(wrongAnswers) < 3 THEN {NoOptions("error")}
        ELSE UNION {correctIndex(correctAnswer, Take(shuffled, 3), fails) :
                        shuffled \in Shuffle(wrongAnswers, Len(wrongAnswers))}

(***************************************************************************)
(* Preferences and reminders                                               *)
(***************************************************************************)
PrefGrammarTipsEnabled == "grammar_tips_enabled"
PrefSmartRemindersEnabled == "smart_reminders_enabled"

\* NewUserPreferences: both preferences stored as "true"
NewUserPreferences ==
    [k \in {PrefGrammarTipsEnabled, PrefSmartRemindersEnabled} |-> "true"]

FormatBool(b) == IF b THEN "true" ELSE "false"
\* strconv.ParseBool on the texts FormatBool writes; err for any other text
ParseBool(str) ==
    CASE str = "true" -> [value |-> TRUE, err |-> FALSE]
      [] str = "false" -> [value |-> FALSE, err |-> FALSE]
      [] OTHER -> [value |-> FALSE, err |-> TRUE]

\* a missing key of the two known ones counts as true, a text that is no
\* boolean as false
GetBoolPreference(preferences, key) ==
    IF key \notin DOMAIN preferences THEN TRUE
    ELSE IF ParseBool(preferences[key]).err THEN FALSE
    ELSE ParseBool(preferences[key]).value

SetBoolPreference(preferences, key, value) ==
    [preferences EXCEPT ![key] = FormatBool(value)]

CheckInterval == 30 * Minute
MinReminderInterval == 4 * Hour
QuietHoursStart == 22
QuietHoursEnd == 8
MaxRemindersPerDay == 3

\* t.Hour() and the calendar day of t, the clock starting at a midnight
HourOfDay(t) == (t \div Hour) % 24
DayOf(t) == t \div MinutesPerDay

\* isQuietTime checks if current time is within quiet hours
isQuietTime(t) ==
    IF QuietHoursStart <= QuietHoursEnd
    THEN HourOfDay(t) >= QuietHoursStart \/ HourOfDay(t) < QuietHoursEnd
    ELSE HourOfDay(t) >= QuietHoursStart /\ HourOfDay(t) < QuietHoursEnd

isSameDay(t1, t2) == DayOf(t1) = DayOf(t2)

\* the map has no entry for the user
NoReminderState ==
    [exists |-> FALSE, LastReminderSent |-> ZeroTime, RemindersToday |-> 0,
     LastCheckDate |-> ZeroTime]

\* shouldSendReminder without the test of the minimum interval
shouldSendReminderAnyInterval(state, clk, dueWords, active) ==
    IF isQuietTime(clk) THEN [send |-> FALSE, state |-> state]
    ELSE LET created == IF state.exists THEN state
                        ELSE [NoReminderState EXCEPT !.exists = TRUE,
                                  !.LastCheckDate = clk - MinutesPerDay]
             today == IF ~isSameDay(created.LastCheckDate, clk)
                      THEN [created EXCEPT !.RemindersToday = 0,
                                           !.LastCheckDate = clk]
                      ELSE created
             sinceReminder == Sub(clk, today.LastReminderSent)
             sinceActive == Sub(clk, active)
             send ==
                 /\ today.RemindersToday < MaxRemindersPerDay
                 /\ dueWords # 0
                 /\ sinceActive >= Hour
                 /\ \/ sinceActive \div MinutesPerDay >= 3
                    \/ dueWords >= 5 /\ sinceReminder >= 6 * Hour
                    \/ dueWords >= 1 /\ sinceReminder >= 12 * Hour
         IN  [send |-> send, state |-> today]

\* shouldSendReminder: whether the user is to be reminded at the clock reading
\* clk, and the user's reminder state after the call
shouldSendReminder(state, clk, dueWords, active) ==
    IF isQuietTime(clk) THEN [send |-> FALSE, state |-> state]
    ELSE LET created == IF state.exists THEN state
                        ELSE [NoReminderState EXCEPT !.exists = TRUE,
                                  !.LastCheckDate = clk - MinutesPerDay]
             today == IF ~isSameDay(created.LastCheckDate, clk)
                      THEN [created EXCEPT !.RemindersToday = 0,
                                           !.LastCheckDate = clk]
                      ELSE created
             sinceReminder == Sub(clk, today.LastReminderSent)
             sinceActive == Sub(clk, active)
             send ==
                 /\ today.RemindersToday < MaxRemindersPerDay
                 /\ sinceReminder >= MinReminderInterval
                 /\ dueWords # 0
                 /\ sinceActive >= Hour
                 /\ \/ sinceActive \div MinutesPerDay >= 3
                    \/ dueWords >= 5 /\ sinceReminder >= 6 * Hour
                    \/ dueWords >= 1 /\ sinceReminder >= 12 * Hour
         IN  [send |-> send, state |-> today]

\* sendReminderToUser after a successful send, the clock reading clk
sendReminderToUser(state, clk) ==
    [state EXCEPT !.LastReminderSent = clk,
                  !.RemindersToday = state.RemindersToday + 1]

(***************************************************************************)
(* The life of one card: Spec                                              *)
(***************************************************************************)
NoLog == [Rating |-> 0, ScheduledDays |-> 0, ElapsedDays |-> 0,
          ReviewTime |-> ZeroTime, State |-> "none"]
\* what a Review call is remembered by: the reviewed card's state, memory
\* values and counters, the rating, the review time and the clock reading
Called(c, rating, reviewTime, clk) ==
    [state |-> c.state, stability |-> c.stability, difficulty |-> c.difficulty,
     reviewCount |-> c.reviewCount, lapses |-> c.lapses,
     rating |-> rating, reviewTime |-> reviewTime, clk |-> clk]
NoCall == Called(NewFSRSCard(0), 0, ZeroTime, 0)
NoArg == [fn |-> "none"]
NoRes == [fn |-> "none"]

NoReminder == [at |-> ZeroTime, prev |-> ZeroTime, enabled |-> TRUE, onDay |-> 0]

\* default preferences, no reminder state, the reminder service not started
RemIdle ==
    /\ prefs = NewUserPreferences
    /\ lastActive = 0
    /\ reminderState = NoReminderState
    /\ ticker = 0
    /\ reminded = NoReminder

\* an empty store, no session, no goroutine, no click
AppIdle ==
    /\ words = {}
    /\ rows = {}
    /\ history = <<>>
    /\ sessions = <<>>
    /\ activeSessions = 0
    /\ tasks = <<>>
    /\ clicks = {}

Clock == 0..MaxClock

\* NewUserProgress: a progress record with a new card, created as the clock starts
Init ==
    /\ now = 0
    /\ card = NewFSRSCard(0)
    /\ updatedAt = 0
    /\ log = NoLog
    /\ call = NoCall
    /\ arg = NoArg
    /\ res = NoRes
    /\ AppIdle
    /\ RemIdle

\* time passes
Tick ==
    /\ now < MaxClock
    /\ now' = now + 1
    /\ UNCHANGED <<remVars, card, updatedAt, log, call, arg, res, appVars>>

\* UserProgress.Review: reads the clock for the review time and again, inside
\* Review, for the due date; the clock may have moved on between the two
\* readings.  updatedAt takes the last reading.
UserProgressReview(rating) ==
    /\ card.reviewCount < MaxReviews
    /\ \E r2 \in now..Min(now + 1, MaxClock) :
          LET result == Review(card, rating, now, r2)
          IN  /\ card' = result.Card
              /\ log' = result.LogEntry
              /\ call' = Called(card, rating, now, r2)
              /\ updatedAt' = r2
              /\ now' = r2
    /\ UNCHANGED <<remVars, arg, res, appVars>>

\* FSRSCard.Review called with a review time of the caller's choosing, the
\* returned card taking the place of the reviewed one
CallReview(rating, reviewTime) ==
    /\ card.reviewCount < MaxReviews
    /\ LET result == Review(card, rating, reviewTime, now)
       IN  /\ card' = result.Card
           /\ log' = result.LogEntry
           /\ call' = Called(card, rating, reviewTime, now)
    /\ UNCHANGED <<remVars, now, updatedAt, arg, res, appVars>>

Next ==
    \/ Tick
    \/ \E rating \in Ratings : UserProgressReview(rating)
    \/ \E rating \in Ratings, reviewTime \in Clock : CallReview(rating, reviewTime)

Spec == Init /\ [][Next]_vars

(***************************************************************************)
(* The numeric functions on chosen inputs: SpecNumeric                     *)
(***************************************************************************)
\* stabilities k/4 days and the powers of ten from 0.0001 days up
StabilityInputs ==
    {(k * Scale) \div 4 : k \in 1..MaxQuarter} \cup {10^e : e \in 0..MaxExp}

\* difficulties 1.0, 1.5, ..., 10.0
DifficultyInputs == {(k * Scale) \div 2 : k \in 2..20}

IntervalArgs ==
    [fn : {"calculateInterval"}, s1 : StabilityInputs, s2 : StabilityInputs]

StabilityArgs ==
    [fn : {"nextStability"}, difficulty : DifficultyInputs,
     stability : StabilityInputs]

\* a card in Review state with the given difficulty and stability, as
\* setFSRSCardFromDB restores one through the setters
ReviewCard(difficulty, stability) ==
    [NewFSRSCard(0) EXCEPT !.state = StateReview, !.difficulty = difficulty,
                           !.stability = stability, !.lastReview = 0,
                           !.reviewCount = 1]

\* cards in each of the four states
CardInputs ==
    {NewFSRSCard(0),
     [ReviewCard(5 * Scale, Scale) EXCEPT !.state = StateLearning],
     ReviewCard(5 * Scale, (5 * Scale) \div 2),
     [ReviewCard(5 * Scale, Scale) EXCEPT !.state = StateRelearning,
                                          !.lapses = 1]}

\* one card, rating and review time, and the clock's reading at each of two
\* invocations
ReviewArgs ==
    [fn : {"Review"}, card : CardInputs, rating : Ratings, reviewTime : Clock,
     clk1 : Clock, clk2 : Clock]

InitNumeric ==
    /\ now = 0
    /\ card = NewFSRSCard(0)
    /\ updatedAt = 0
    /\ log = NoLog
    /\ call = NoCall
    /\ arg \in IntervalArgs \cup StabilityArgs \cup ReviewArgs
    /\ res = NoRes
    /\ AppIdle
    /\ RemIdle

\* calculateInterval applied to the two stabilities
EvalInterval ==
    /\ arg.fn = "calculateInterval"
    /\ res = NoRes
    /\ res' = [fn |-> arg.fn, i1 |-> calculateInterval(arg.s1),
               i2 |-> calculateInterval(arg.s2)]
    /\ UNCHANGED <<remVars, now, card, updatedAt, log, call, arg, appVars>>

\* the Review-state card reviewed with each of the ratings that keep it in
\* Review state
EvalStability ==
    /\ arg.fn = "nextStability"
    /\ res = NoRes
    /\ LET c == ReviewCard(arg.difficulty, arg.stability)
       IN  res' = [fn |-> arg.fn,
                   hard |-> Review(c, Hard, now, now).Card.stability,
                   good |-> Review(c, Good, now, now).Card.stability,
                   easy |-> Review(c, Easy, now, now).Card.stability]
    /\ UNCHANGED <<remVars, now, card, updatedAt, log, call, arg, appVars>>

\* Review invoked twice on the same card, rating and review time
EvalReview ==
    /\ arg.fn = "Review"
    /\ res = NoRes
    /\ res' = [fn |-> arg.fn,
               r1 |-> Review(arg.card, arg.rating, arg.reviewTime, arg.clk1),
               r2 |-> Review(arg.card, arg.rating, arg.reviewTime, arg.clk2)]
    /\ UNCHANGED <<remVars, now, card, updatedAt, log, call, arg, appVars>>

NextNumeric == EvalInterval \/ EvalStability \/ EvalReview

SpecNumeric == InitNumeric /\ [][NextNumeric]_vars

(***************************************************************************)
(* Starting a session from a given store: SpecSelect                       *)
(***************************************************************************)
\* handleLearningFlow: the session GetNextDueWord returns becomes the user's
\* active session; without one, or on an error, only a message is sent
handleLearningFlow ==
    /\ Len(sessions) < MaxSessions
    /\ \E out \in GetNextDueWord(rows, words, now) :
          IF out.err \/ out.session = NoSession
          THEN UNCHANGED <<sessions, activeSessions>>
          ELSE /\ sessions' = Append(sessions, out.session)
               /\ activeSessions' = Len(sessions) + 1
    /\ UNCHANGED <<remVars, now, card, updatedAt, log, call, arg, res, words, rows,
                   history, tasks, clicks>>

\* GetNextDueWord on the store as it is: res remembers the candidate list
\* and the outcome
EvalGetNextDueWord ==
    /\ res = NoRes
    /\ sessions = <<>>
    /\ \E out \in GetNextDueWord(rows, words, now) :
          res' = [fn |-> "GetNextDueWord", allProgress |-> out.allProgress,
                  err |-> out.err, session |-> out.session]
    /\ UNCHANGED <<remVars, now, card, updatedAt, log, call, arg, appVars>>

SelectNow == Hour

\* the row a word's first review at time t leaves in the store
ReviewedRow(i, rating, t) ==
    [id |-> i, word |-> i, card |-> Review(NewFSRSCard(t), rating, t, t).Card]

\* n rows rated Again between one and nine minutes ago, due a minute later
RecentRows(n) ==
    {ReviewedRow(j, Again, SelectNow - (((j - 1) % (TenMinutes - 1)) + 1)) :
        j \in 1..n}

\* n rows rated ten minutes ago and earlier, the ids following base: rated
\* Again they were due a minute later, rated Good they are due ten minutes later
OldRows(base, n, rating) ==
    {ReviewedRow(base + o, rating, SelectNow - TenMinutes - (o - 1)) : o \in 1..n}

\* n rows rated Easy a minute ago, due in days
NotDueRows(base, n) ==
    {ReviewedRow(base + o, Easy, SelectNow - Minute) : o \in 1..n}

InitSelect ==
    /\ now = SelectNow
    /\ card = NewFSRSCard(0)
    /\ updatedAt = 0
    /\ log = NoLog
    /\ call = NoCall
    /\ arg = NoArg
    /\ res = NoRes
    /\ \E nRecent \in 0..MaxRecent, nOld \in 0..MaxOld, rating \in {Again, Good},
          nNotDue \in 0..1, nNew \in 0..MaxNewWords :
          /\ rows = RecentRows(nRecent) \cup OldRows(nRecent, nOld, rating)
                        \cup NotDueRows(nRecent + nOld, nNotDue)
          /\ words = 1..(nRecent + nOld + nNotDue + nNew)
    /\ history = <<>>
    /\ sessions = <<>>
    /\ activeSessions = 0
    /\ tasks = <<>>
    /\ clicks = {}
    /\ RemIdle

NextSelect == handleLearningFlow \/ EvalGetNextDueWord

SpecSelect == InitSelect /\ [][NextSelect]_vars

(***************************************************************************)
(* The options on chosen vocabularies: SpecOptions                         *)
(***************************************************************************)
Categories == {"food", "home"}
\* the asked word is huis; other words may share its translation or each
\* other's
DutchWords == {"huis", "boom", "fiets", "kaas"}

AskedWord == [id |-> 1, category |-> "home", english |-> ToString(1),
              dutch |-> "huis"]

\* the vocabulary's other words: the k-th has id k + 1 and an English side of
\* its own
OtherWord(others, k) ==
    [id |-> k + 1, category |-> others[k].category,
     english |-> ToString(k + 1), dutch |-> others[k].dutch]

\* FindByCategory: the category's words, ORDER BY english
FindByCategory(others, category) ==
    LET all == <<AskedWord>> \o [k \in 1..Len(others) |-> OtherWord(others, k)]
    IN  SelectSeq(all, LAMBDA w : w.category = category)

\* FindAll: ORDER BY category, english
FindAll(others) == FindByCategory(others, "food") \o FindByCategory(others, "home")

OptionsArgs ==
    [fn : {"generateMultipleChoiceOptions"},
     others : UNION {[1..n -> [category : Categories, dutch : DutchWords]] :
                        n \in 0..MaxOthers},
     questionType : {QuestionTypeEnglishToDutch, QuestionTypeDutchToEnglish},
     fails : {"none", "shuffle", "correctIndex"}]

InitOptions ==
    /\ now = 0
    /\ card = NewFSRSCard(0)
    /\ updatedAt = 0
    /\ log = NoLog
    /\ call = NoCall
    /\ arg \in OptionsArgs
    /\ res = NoRes
    /\ AppIdle
    /\ RemIdle

\* generateMultipleChoiceOptions for the asked word
EvalOptions ==
    /\ arg.fn = "generateMultipleChoiceOptions"
    /\ res = NoRes
    /\ \E out \in generateMultipleChoiceOptions(AskedWord, arg.questionType,
                      FindByCategory(arg.others, AskedWord.category),
                      FindAll(arg.others), arg.fails) :
          res' = [fn |-> arg.fn, status |-> out.status, options |-> out.options,
                  correctIndex |-> out.correctIndex]
    /\ UNCHANGED <<remVars, now, card, updatedAt, log, call, arg, appVars>>

NextOptions == EvalOptions

SpecOptions == InitOptions /\ [][NextOptions]_vars

(***************************************************************************)
(* One user's sessions, rating callbacks and the store: SpecSession        *)
(*                                                                         *)
(* Every update is handled in a goroutine of its own and handleRating      *)
(* starts another for the review, so the steps of several callbacks        *)
(* interleave.  A step is atomic: the synchronous part of a handler, the   *)
(* in-memory Review, the transaction of SaveProgressAndHistory, and the    *)
(* continuation after it.                                                  *)
(***************************************************************************)
\* the text after "rating_" in a callback's data
RatingStrings == {"0", "1", "3", "good"}

\* strconv.Atoi
Atoi(str) ==
    CASE str = "0" -> [ok |-> TRUE, n |-> 0]
      [] str = "1" -> [ok |-> TRUE, n |-> 1]
      [] str = "3" -> [ok |-> TRUE, n |-> 3]
      [] OTHER -> [ok |-> FALSE, n |-> 0]

\* the steps at which a transaction can fail
SaveFailures == {"none", "begin", "progress", "history", "commit"}

\* the id AUTOINCREMENT gives the next row: one more than the largest id of
\* a committed row
LastInsertId(table) ==
    IF table = {} THEN 1
    ELSE 1 + (CHOOSE n \in {r.id : r \in table} : \A r \in table : r.id <= n)

\* SaveProgressAndHistory: the tables after the call, the id the progress
\* object is left with and whether an error is returned.  The object's id is
\* set when the row is inserted, before the commit; a rollback does not
\* take it back.  An UPDATE that matches no row is no error.
SaveProgressAndHistory(table, reviews, progress, entry, failure) ==
    LET unchanged(id) == [rows |-> table, history |-> reviews, id |-> id,
                          err |-> TRUE]
        inserted == [id |-> LastInsertId(table), word |-> progress.word,
                     card |-> progress.card]
        saved == IF progress.id = 0
                 THEN table \cup {inserted}
                 ELSE {IF r.id = progress.id
                       THEN [r EXCEPT !.card = progress.card] ELSE r : r \in table}
        id == IF progress.id = 0 THEN inserted.id ELSE progress.id
    IN  IF failure \in {"begin", "progress"} THEN unchanged(progress.id)
        ELSE IF progress.id = 0 /\ \E r \in table : r.word = progress.word
        THEN unchanged(progress.id)
        ELSE IF failure \in {"history", "commit"} THEN unchanged(id)
        ELSE [rows |-> saved, history |-> Append(reviews, entry), id |-> id,
              err |-> FALSE]

InitSession ==
    /\ now = 0
    /\ card = NewFSRSCard(0)
    /\ updatedAt = 0
    /\ log = NoLog
    /\ call = NoCall
    /\ arg = NoArg
    /\ res = NoRes
    /\ words = 1..MaxNewWords
    /\ rows = {}
    /\ history = <<>>
    /\ sessions = <<>>
    /\ activeSessions = 0
    /\ tasks = <<>>
    /\ clicks = {}
    /\ RemIdle

\* a minute passes
MinutePasses ==
    /\ now < MaxClock
    /\ now' = now + 1
    /\ clicks' = {}
    /\ UNCHANGED <<remVars, card, updatedAt, log, call, arg, res, words, rows, history,
                   sessions, activeSessions, tasks>>

\* a second passes: the clicks recorded are no longer recent
SecondPasses ==
    /\ clicks # {}
    /\ clicks' = {}
    /\ UNCHANGED <<remVars, now, card, updatedAt, log, call, arg, res, words, rows,
                   history, sessions, activeSessions, tasks>>

\* handleRating up to the go statement: a click on the same rating within the
\* last second is ignored; without an active session, or with a rating that
\* is not a number, nothing is started; else a goroutine is started for the
\* active session and the number
handleRating(ratingStr) ==
    /\ Len(tasks) < MaxTasks
    /\ ratingStr \notin clicks
    /\ clicks' = clicks \cup {ratingStr}
    /\ IF activeSessions # 0 /\ Atoi(ratingStr).ok
       THEN tasks' = Append(tasks, [session |-> activeSessions,
                                    rating |-> Atoi(ratingStr).n,
                                    pc |-> "review"])
       ELSE UNCHANGED tasks
    /\ UNCHANGED <<remVars, now, card, updatedAt, log, call, arg, res, words, rows,
                   history, sessions, activeSessions>>

\* ProcessReview, first half: session.Progress.Review(rating) replaces the
\* card of the session's progress object.  card, log and call remember the
\* review.
ProcessReview(i) ==
    /\ tasks[i].pc = "review"
    /\ LET s == tasks[i].session
           result == Review(sessions[s].progress.card, tasks[i].rating, now, now)
       IN  /\ sessions' = [sessions EXCEPT ![s].progress.card = result.Card]
           /\ card' = result.Card
           /\ log' = result.LogEntry
           /\ call' = Called(sessions[s].progress.card, tasks[i].rating, now, now)
    /\ updatedAt' = now
    /\ tasks' = [tasks EXCEPT ![i].pc = "save"]
    /\ UNCHANGED <<remVars, now, arg, res, words, rows, history, activeSessions, clicks>>

\* ProcessReview, second half: the progress object and a history entry are
\* saved in one transaction; on an error the goroutine ends and the session
\* stays
ProcessReviewSave(i) ==
    /\ tasks[i].pc = "save"
    /\ \E failure \in SaveFailures :
          LET s == tasks[i].session
              out == SaveProgressAndHistory(rows, history, sessions[s].progress,
                        [word |-> sessions[s].word, rating |-> tasks[i].rating],
                        failure)
          IN  /\ rows' = out.rows
              /\ history' = out.history
              /\ sessions' = [sessions EXCEPT ![s].progress.id = out.id]
              /\ tasks' = [tasks EXCEPT ![i].pc = IF out.err THEN "done" ELSE "next"]
    /\ UNCHANGED <<remVars, now, card, updatedAt, log, call, arg, res, words,
                   activeSessions, clicks>>

\* the goroutine after a saved review: the user's session is deleted and the
\* session GetNextDueWord returns, if any, becomes the active one
handleRatingNext(i) ==
    /\ tasks[i].pc = "next"
    /\ \E out \in GetNextDueWord(rows, words, now) :
          IF out.err \/ out.session = NoSession
          THEN /\ activeSessions' = 0
               /\ UNCHANGED sessions
          ELSE /\ sessions' = Append(sessions, out.session)
               /\ activeSessions' = Len(sessions) + 1
    /\ tasks' = [tasks EXCEPT ![i].pc = "done"]
    /\ UNCHANGED <<remVars, now, card, updatedAt, log, call, arg, res, words, rows,
                   history, clicks>>

NextSession ==
    \/ MinutePasses
    \/ SecondPasses
    \/ handleLearningFlow
    \/ \E ratingStr \in RatingStrings : handleRating(ratingStr)
    \/ \E i \in 1..Len(tasks) : ProcessReview(i)
    \/ \E i \in 1..Len(tasks) : ProcessReviewSave(i)
    \/ \E i \in 1..Len(tasks) : handleRatingNext(i)

SpecSession == InitSession /\ [][NextSession]_vars

(***************************************************************************)
(* The reminder service and one user: SpecRemind                           *)
(***************************************************************************)
\* the time of day at which the service is started: 23:29 on day 0
StartTime == 23 * Hour + 29 * Minute
\* the numbers of due words GetUserStats reports
DueCounts == {0, 1, 5}

InitRemind ==
    /\ now = StartTime
    /\ card = NewFSRSCard(0)
    /\ updatedAt = 0
    /\ log = NoLog
    /\ call = NoCall
    /\ arg = NoArg
    /\ res = NoRes
    /\ AppIdle
    /\ prefs = NewUserPreferences
    /\ lastActive = now - 3 * MinutesPerDay
    /\ reminderState = NoReminderState
    /\ ticker = now + CheckInterval
    /\ reminded = NoReminder

\* the user sends the bot a message or a callback: UpdateLastActive.  The
\* user comes back at most once while the service runs.
UserActive ==
    /\ lastActive < StartTime
    /\ lastActive' = now
    /\ UNCHANGED <<now, card, updatedAt, log, call, arg, res, appVars, prefs,
                   reminderState, ticker, reminded>>

\* ToggleSmartReminders
ToggleSmartReminders ==
    /\ prefs' = SetBoolPreference(prefs, PrefSmartRemindersEnabled,
                    ~GetBoolPreference(prefs, PrefSmartRemindersEnabled))
    /\ UNCHANGED <<now, card, updatedAt, log, call, arg, res, appVars,
                   lastActive, reminderState, ticker, reminded>>

\* a tick of the reminder service: checkAndSendReminders for the user.
\* shouldSendReminder reads the clock at the tick; sendReminderToUser sends
\* the message and reads the clock again, up to a minute later.  reminded
\* remembers the send: its time, the time of the send before it, the
\* preference at that moment and the number of sends on that calendar day.
checkAndSendReminders ==
    /\ ticker <= MaxTicks * CheckInterval
    /\ ticker' = ticker + CheckInterval
    /\ \E dueWords \in DueCounts, delivered \in BOOLEAN,
          clk2 \in {ticker, ticker + Minute} :
          LET should == shouldSendReminder(reminderState, ticker, dueWords,
                                           lastActive)
          IN  IF should.send /\ delivered
              THEN \E at \in {ticker, clk2} :
                      /\ reminderState' = sendReminderToUser(should.state, clk2)
                      /\ reminded' =
                            [at |-> at, prev |-> reminded.at,
                             enabled |-> GetBoolPreference(prefs,
                                             PrefSmartRemindersEnabled),
                             onDay |-> IF reminded.at # ZeroTime
                                          /\ isSameDay(reminded.at, at)
                                       THEN reminded.onDay + 1 ELSE 1]
                      /\ now' = clk2
              ELSE /\ reminderState' = should.state
                   /\ reminded' = reminded
                   /\ now' = ticker
    /\ UNCHANGED <<card, updatedAt, log, call, arg, res, appVars, prefs,
                   lastActive>>

NextRemind == UserActive \/ ToggleSmartReminders \/ checkAndSendReminders

SpecRemind == InitRemind /\ [][NextRemind]_vars

(***************************************************************************)
(* The settings toggles and the grammar tip of a session: SpecPrefs        *)
(***************************************************************************)
\* prefs is the user's rows of user_preferences as FindPreferences returns
\* them.  Every callback runs in its own goroutine: tasks holds the toggle
\* handlers that have loaded the preferences and not yet saved them.
InitPrefs ==
    /\ now = 0
    /\ card = NewFSRSCard(0)
    /\ updatedAt = 0
    /\ log = NoLog
    /\ call = NoCall
    /\ arg = NoArg
    /\ res = NoRes
    /\ AppIdle
    /\ RemIdle

\* ToggleGrammarTips or ToggleSmartReminders in flight
Toggling(key) == \E i \in 1..Len(tasks) : tasks[i].key = key

\* the last grammar tips toggle that completed switched the tips off, and
\* no other is under way
GrammarTipsToggledOff ==
    /\ res.fn = "ToggleGrammarTips"
    /\ ~res.newState
    /\ ~Toggling(PrefGrammarTipsEnabled)

\* ToggleGrammarTips / ToggleSmartReminders, first half: GetUserPreferences
GetUserPreferences(key) ==
    /\ Len(tasks) < MaxTasks
    /\ tasks' = Append(tasks, [key |-> key, preferences |-> prefs])
    /\ UNCHANGED <<now, card, updatedAt, log, call, arg, res, words, rows,
                   history, sessions, activeSessions, clicks, remVars>>

\* ToggleGrammarTips / ToggleSmartReminders, second half: the loaded
\* preferences with the one key toggled are saved whole (SavePreferences
\* deletes the user's rows and inserts the map), or the save fails
UpdateUserPreferences(i) ==
    /\ i \in 1..Len(tasks)
    /\ LET t == tasks[i]
           newState == ~GetBoolPreference(t.preferences, t.key)
           toggled == SetBoolPreference(t.preferences, t.key, newState)
       IN  \E saved \in BOOLEAN :
              /\ prefs' = IF saved THEN toggled ELSE prefs
              /\ res' = IF saved /\ t.key = PrefGrammarTipsEnabled
                        THEN [fn |-> "ToggleGrammarTips", newState |-> newState]
                        ELSE res
    /\ tasks' = SubSeq(tasks, 1, i - 1) \o SubSeq(tasks, i + 1, Len(tasks))
    /\ UNCHANGED <<now, card, updatedAt, log, call, arg, words, rows, history,
                   sessions, activeSessions, clicks, lastActive, reminderState,
                   ticker, reminded>>

\* GetNextDueWord, its last step: the session gets a grammar tip if the
\* preferences load, grammar tips are enabled, the 20% draw succeeds and a
\* tip applies to the word.  The session remembers the preference and
\* whether the user had switched the tips off.
addGrammarTip ==
    /\ Len(sessions) < MaxSessions
    /\ \E loaded \in BOOLEAN, shouldShowGrammarTip \in BOOLEAN,
          applicable \in BOOLEAN :
          sessions' = Append(sessions,
              [GrammarTip |-> /\ loaded
                              /\ GetBoolPreference(prefs, PrefGrammarTipsEnabled)
                              /\ shouldShowGrammarTip
                              /\ applicable,
               enabled |-> GetBoolPreference(prefs, PrefGrammarTipsEnabled),
               toggledOff |-> GrammarTipsToggledOff])
    /\ UNCHANGED <<now, card, updatedAt, log, call, arg, res, words, rows,
                   history, activeSessions, tasks, clicks, remVars>>

NextPrefs ==
    \/ \E key \in {PrefGrammarTipsEnabled, PrefSmartRemindersEnabled} :
          GetUserPreferences(key)
    \/ \E i \in 1..MaxTasks : UpdateUserPreferences(i)
    \/ addGrammarTip

SpecPrefs == InitPrefs /\ [][NextPrefs]_vars

(***************************************************************************)
(* The callback goroutines and the memory they share: SpecHandlers         *)
(***************************************************************************)
\* Start runs handleUpdate for every update in a goroutine of its own.
\* tasks holds the goroutines of one user's updates, each with the place it
\* has reached.  The two maps they share are the click tracker's lastClicks
\* (clicks: the keys recorded within the last second), every access under
\* the tracker's lock, and BotHandler.activeSessions, accessed without a
\* lock: a map operation is under way from the step that begins it to the
\* step that ends it.
Updates == {"learn", "choice_0", "rating_3"}

\* the places of a goroutine inside a map operation on activeSessions
MapReads == {"mapaccess"}
MapWrites == {"mapassign", "mapdelete"}

InMapOp(i, ops) == tasks[i].pc \in ops

\* another goroutine is inside a map operation that conflicts with the one
\* goroutine i is inside
Races(i) ==
    \E j \in 1..Len(tasks) :
        /\ j # i
        /\ \/ InMapOp(j, MapWrites)
           \/ InMapOp(i, MapWrites) /\ InMapOp(j, MapReads)

\* the runtime has stopped the process: concurrent map read and map write
Crashed == \E i \in 1..Len(tasks) : tasks[i].pc = "fatal"

At(i, pc) ==
    /\ ~Crashed
    /\ i \in 1..Len(tasks)
    /\ tasks[i].pc = pc

Goto(i, pc) == [tasks EXCEPT ![i].pc = pc]

\* a session as GetNextDueWord returns it
NewSession == [word |-> 1, progress |-> NewUserProgress(1, now), startTime |-> now]

InitHandlers ==
    /\ now = 0
    /\ card = NewFSRSCard(0)
    /\ updatedAt = 0
    /\ log = NoLog
    /\ call = NoCall
    /\ arg = NoArg
    /\ res = NoRes
    /\ AppIdle
    /\ RemIdle

\* Start: an update arrives and its goroutine starts; at is the time of
\* arrival, session the session the goroutine works on once it has one,
\* raced whether a map operation of it ended while a conflicting one was
\* under way
handleUpdate(update) ==
    /\ ~Crashed
    /\ Len(tasks) < MaxHandlers
    /\ tasks' = Append(tasks,
          [update |-> update, at |-> now, session |-> 0, raced |-> FALSE,
           pc |-> IF update = "learn" THEN "GetNextDueWord" ELSE "isRecentClick"])
    /\ UNCHANGED <<now, card, updatedAt, log, call, arg, res, words, rows,
                   history, sessions, activeSessions, clicks, remVars>>

\* more than a second passes: no recorded click is recent any longer
ClicksExpire ==
    /\ ~Crashed
    /\ now < MaxClock
    /\ now' = now + 1
    /\ clicks' = {}
    /\ UNCHANGED <<card, updatedAt, log, call, arg, res, words, rows, history,
                   sessions, activeSessions, tasks, remVars>>

\* handleMultipleChoice / handleRating: isRecentClick under the read lock;
\* a recent click ends the handler
isRecentClick(i) ==
    /\ At(i, "isRecentClick")
    /\ tasks' = Goto(i, IF tasks[i].update \in clicks THEN "ignored"
                        ELSE "recordClick")
    /\ UNCHANGED <<now, card, updatedAt, log, call, arg, res, words, rows,
                   history, sessions, activeSessions, clicks, remVars>>

\* recordClick under the write lock
recordClick(i) ==
    /\ At(i, "recordClick")
    /\ clicks' = clicks \cup {tasks[i].update}
    /\ tasks' = Goto(i, "activeSessions")
    /\ UNCHANGED <<now, card, updatedAt, log, call, arg, res, words, rows,
                   history, sessions, activeSessions, remVars>>

\* session, exists := h.activeSessions[userID] begins
beginMapaccess(i) ==
    /\ At(i, "activeSessions")
    /\ tasks' = Goto(i, "mapaccess")
    /\ UNCHANGED <<now, card, updatedAt, log, call, arg, res, words, rows,
                   history, sessions, activeSessions, clicks, remVars>>

\* the lookup ends.  Racing with a write it may stop the process or see any
\* session; without a session the handler ends; handleMultipleChoice shows
\* the result and the rating buttons; handleRating starts the background
\* goroutine.
mapaccess(i) ==
    /\ At(i, "mapaccess")
    /\ \E seen \in IF Races(i) THEN 0..Len(sessions) ELSE {activeSessions},
          fatal \in IF Races(i) THEN BOOLEAN ELSE {FALSE} :
          tasks' = [tasks EXCEPT
                      ![i].session = seen,
                      ![i].raced = Races(i),
                      ![i].pc = IF fatal THEN "fatal"
                                ELSE IF seen = 0 THEN "noSession"
                                ELSE IF tasks[i].update = "choice_0"
                                THEN "answered"
                                ELSE "ProcessReview"]
    /\ UNCHANGED <<now, card, updatedAt, log, call, arg, res, words, rows,
                   history, sessions, activeSessions, clicks, remVars>>

\* the background goroutine of handleRating: ProcessReview succeeds or fails
backgroundProcessReview(i) ==
    /\ At(i, "ProcessReview")
    /\ \E err \in BOOLEAN :
          tasks' = Goto(i, IF err THEN "failed" ELSE "delete")
    /\ UNCHANGED <<now, card, updatedAt, log, call, arg, res, words, rows,
                   history, sessions, activeSessions, clicks, remVars>>

\* delete(h.activeSessions, userID) begins
beginMapdelete(i) ==
    /\ At(i, "delete")
    /\ tasks' = Goto(i, "mapdelete")
    /\ UNCHANGED <<now, card, updatedAt, log, call, arg, res, words, rows,
                   history, sessions, activeSessions, clicks, remVars>>

\* the delete ends
mapdelete(i) ==
    /\ At(i, "mapdelete")
    /\ \E fatal \in IF Races(i) THEN BOOLEAN ELSE {FALSE} :
          /\ tasks' = [tasks EXCEPT
                         ![i].raced = Races(i),
                         ![i].pc = IF fatal THEN "fatal" ELSE "GetNextDueWord"]
          /\ activeSessions' = IF fatal THEN activeSessions ELSE 0
    /\ UNCHANGED <<now, card, updatedAt, log, call, arg, res, words, rows,
                   history, sessions, clicks, remVars>>

\* handleLearningFlow and the background goroutine: GetNextDueWord returns
\* an error, no session or a session
nextDueWord(i) ==
    /\ At(i, "GetNextDueWord")
    /\ \E out \in {"err", "nil", "session"} :
          IF out = "session" /\ Len(sessions) < MaxSessions
          THEN /\ sessions' = Append(sessions, NewSession)
               /\ tasks' = [tasks EXCEPT ![i].pc = "store",
                                         ![i].session = Len(sessions) + 1]
          ELSE /\ sessions' = sessions
               /\ tasks' = Goto(i, "finished")
    /\ UNCHANGED <<now, card, updatedAt, log, call, arg, res, words, rows,
                   history, activeSessions, clicks, remVars>>

\* h.activeSessions[userID] = session begins
beginMapassign(i) ==
    /\ At(i, "store")
    /\ tasks' = Goto(i, "mapassign")
    /\ UNCHANGED <<now, card, updatedAt, log, call, arg, res, words, rows,
                   history, sessions, activeSessions, clicks, remVars>>

\* the store ends and the question is sent
mapassign(i) ==
    /\ At(i, "mapassign")
    /\ \E fatal \in IF Races(i) THEN BOOLEAN ELSE {FALSE} :
          /\ tasks' = [tasks EXCEPT
                         ![i].raced = @ \/ Races(i),
                         ![i].pc = IF fatal THEN "fatal" ELSE "finished"]
          /\ activeSessions' = IF fatal THEN activeSessions
                               ELSE tasks[i].session
    /\ UNCHANGED <<now, card, updatedAt, log, call, arg, res, words, rows,
                   history, sessions, clicks, remVars>>

NextHandlers ==
    \/ \E update \in Updates : handleUpdate(update)
    \/ ClicksExpire
    \/ \E i \in 1..MaxHandlers : isRecentClick(i)
    \/ \E i \in 1..MaxHandlers : recordClick(i)
    \/ \E i \in 1..MaxHandlers : beginMapaccess(i)
    \/ \E i \in 1..MaxHandlers : mapaccess(i)
    \/ \E i \in 1..MaxHandlers : backgroundProcessReview(i)
    \/ \E i \in 1..MaxHandlers : beginMapdelete(i)
    \/ \E i \in 1..MaxHandlers : mapdelete(i)
    \/ \E i \in 1..MaxHandlers : nextDueWord(i)
    \/ \E i \in 1..MaxHandlers : beginMapassign(i)
    \/ \E i \in 1..MaxHandlers : mapassign(i)

SpecHandlers == InitHandlers /\ [][NextHandlers]_vars

(***************************************************************************)
(* The claims                                                              *)
(***************************************************************************)
Reviewed == call # NoCall

\* C1: for every card state and every rating, Review(card, rating, t)
\* returns a card whose reviewCount is card.reviewCount + 1 and whose
\* lastReview is t.
C1_CountAndLastReview ==
    Reviewed =>
        /\ card.reviewCount = call.reviewCount + 1
        /\ card.lastReview = call.reviewTime

\* a relearning card reviewed at a time that is not the clock's reading
C1_Witness ==
    /\ Reviewed
    /\ call.state = StateRelearning
    /\ call.reviewTime # call.clk
    /\ card.reviewCount = 3

\* the state the transition table of section 4.1 gives
TableState(state, rating) ==
    CASE state = StateNew ->
            IF rating = Easy THEN StateReview ELSE StateLearning
      [] state \in {StateLearning, StateRelearning} ->
            IF rating \in {Good, Easy} THEN StateReview ELSE StateLearning
      [] state = StateReview ->
            IF rating = Again THEN StateRelearning ELSE StateReview

\* C2: over any sequence of reviews from a new card every step follows the
\* transition table (New to Learning on Again/Hard/Good and to Review on Easy;
\* Learning or Relearning to Learning on Again/Hard and to Review on
\* Good/Easy; Review to Relearning on Again, else Review), and no card
\* returns to New.
C2_TransitionTable ==
    Reviewed =>
        /\ card.state = TableState(call.state, call.rating)
        /\ card.state # StateNew

\* a relearning card kept in Learning by Hard
C2_Witness ==
    /\ Reviewed
    /\ call.state = StateRelearning
    /\ call.rating = Hard
    /\ card.state = StateLearning

C4_LapsesOnlyOnReviewAgain ==
    [][/\ card'.lapses >= card.lapses
       /\ card'.lapses # card.lapses =>
            /\ card.state = StateReview
            /\ call'.rating = Again
            /\ card'.lapses = card.lapses + 1]_vars

\* a lapsed card that was then rated Again while relearning
C4_Witness ==
    /\ Reviewed
    /\ card.lapses = 1
    /\ call.state = StateRelearning
    /\ call.rating = Again

\* C5: after any sequence of reviews applied to a newly created card, the
\* difficulty is within [1.0, 10.0] and the stability is strictly positive.
C5_DifficultyAndStabilityRange ==
    /\ card.difficulty >= 1 * Scale
    /\ card.difficulty <= 10 * Scale
    /\ card.stability > 0

\* a card in Review state whose difficulty the clamp holds at 10.0
C5_Witness ==
    /\ Reviewed
    /\ call.state = StateReview
    /\ call.difficulty < 10 * Scale
    /\ card.difficulty = 10 * Scale

\* C6: for every card in New state and every review time t,
\* Review(card, Easy, t) yields state Review, stability = initStability(Easy)
\* and dueDate = t + intervalDays(stability) days.
C6_NewEasyDueFromReviewTime ==
    (Reviewed /\ call.state = StateNew /\ call.rating = Easy) =>
        /\ card.state = StateReview
        /\ card.stability = initStability(Easy)
        /\ card.dueDate = call.reviewTime
                          + calculateInterval(card.stability) * MinutesPerDay

\* C7: for every card in Learning or Relearning state, Again or Hard leaves
\* it in Learning with a due offset of 1 or 5 minutes (from the clock reading
\* at which the review is processed) and the stability unchanged; Good or
\* Easy moves it to Review with stability = initStability(rating) and due
\* date = review time + intervalDays(stability) days (for Good: stability
\* 2.773, 3 days).
C7_LearningSteps ==
    (Reviewed /\ call.state \in {StateLearning, StateRelearning}) =>
        /\ call.rating = Again =>
              /\ card.state = StateLearning
              /\ card.dueDate = call.clk + 1 * Minute
              /\ card.stability = call.stability
        /\ call.rating = Hard =>
              /\ card.state = StateLearning
              /\ card.dueDate = call.clk + 5 * Minute
              /\ card.stability = call.stability
        /\ call.rating \in {Good, Easy} =>
              /\ card.state = StateReview
              /\ card.stability = initStability(call.rating)
              /\ card.dueDate = call.reviewTime
                                + calculateInterval(card.stability) * MinutesPerDay
        /\ call.rating = Good =>
              /\ card.stability = 27730
              /\ card.dueDate = call.reviewTime + 3 * MinutesPerDay

C10_HardBelowGood ==
    res.fn = "nextStability" => res.hard < res.good

\* C12: Review is a deterministic function of its inputs: two invocations
\* with equal card, rating and review time return equal cards and equal log
\* entries, whatever the wall-clock time at which each invocation runs.
C12_ReviewDeterministic ==
    res.fn = "Review" => res.r1 = res.r2

Selected == res.fn = "GetNextDueWord"

\* a persisted record that was not reviewed within the last ten minutes
DueCard(p) == p.id # 0 /\ p.card.lastReview <= now - TenMinutes
\* a persisted record that was reviewed within the last ten minutes
RecentCard(p) == p.id # 0 /\ p.card.lastReview > now - TenMinutes
NewWordsInStore == words \ {r.word : r \in rows}

\* C13: whenever the candidate list given to selectBestWordForLearning
\* contains a due card (a persisted record not reviewed within the last 10
\* minutes), the selected card is the first such card in list order, never a
\* new or a recently reviewed one.
C13_FirstDueSelected ==
    (Selected /\ ~res.err) =>
        \A i \in 1..Len(res.allProgress) :
            (/\ DueCard(res.allProgress[i])
             /\ \A j \in 1..(i - 1) : ~DueCard(res.allProgress[j]))
            => res.session.progress = res.allProgress[i]

\* a due card selected from behind recently reviewed cards, with a new word
\* at the end of the list
C13_Witness ==
    /\ Selected /\ ~res.err
    /\ Len(res.allProgress) >= 3
    /\ RecentCard(res.allProgress[1])
    /\ res.allProgress[Len(res.allProgress)].id = 0
    /\ \E i \in 2..Len(res.allProgress) :
          /\ DueCard(res.allProgress[i])
          /\ res.session.progress = res.allProgress[i]

\* C14: GetNextDueWord presents a recently reviewed card only when the user
\* has no due card that is not recently reviewed and no new word in the
\* store; whenever a new word exists and no non-recent due card exists, a
\* new word is presented.
C14_RecentOnlyAsLastResort ==
    (Selected /\ res.session # NoSession) =>
        /\ RecentCard(res.session.progress) =>
              /\ ~\E r \in rows : r.card.dueDate <= now /\ DueCard(r)
              /\ NewWordsInStore = {}
        /\ (/\ NewWordsInStore # {}
            /\ ~\E r \in rows : r.card.dueDate <= now /\ DueCard(r))
           => res.session.progress.id = 0

\* C15: when the user has no due card and there is no word without a
\* progress record, GetNextDueWord reports not-found (no session, no error)
\* and no active session is created; a session's card is never fabricated:
\* it is a row of the store or a new record for a word without a row.
C15_NotFoundWhenNothingAvailable ==
    /\ (/\ ~\E r \in rows : r.card.dueDate <= now
        /\ NewWordsInStore = {})
       => /\ Selected => (res.session = NoSession /\ ~res.err)
          /\ activeSessions = 0
          /\ sessions = <<>>
    /\ \A s \in 1..Len(sessions) :
          \/ sessions[s].progress \in rows
          \/ /\ sessions[s].progress.id = 0
             /\ sessions[s].progress.word \in NewWordsInStore

\* a store whose only row is not due yet, and no session
C15_Witness ==
    /\ Selected
    /\ rows # {}
    /\ \A r \in rows : r.card.dueDate > now
    /\ NewWordsInStore = {}
    /\ res.session = NoSession
    /\ activeSessions = 0

Generated == res.fn = "generateMultipleChoiceOptions"
CorrectAnswer == Asked(AskedWord, arg.questionType)

\* the distinct translations of the vocabulary's other words that differ
\* from the correct answer
UsableAnswers ==
    {Asked(OtherWord(arg.others, k), arg.questionType) : k \in 1..Len(arg.others)}
        \ {CorrectAnswer}

\* C16: whenever generateMultipleChoiceOptions succeeds it returns 4 options
\* and an index in 0..3 such that exactly one option equals the correct
\* answer, the one at the index, and the other 3 options are pairwise
\* distinct and differ from the correct answer.
C16_OneCorrectThreeDistinct ==
    (Generated /\ res.status = "ok") =>
        /\ Len(res.options) = 4
        /\ res.correctIndex \in 0..3
        /\ \A i \in 1..4 :
              res.options[i] = CorrectAnswer <=> i = res.correctIndex + 1
        /\ \A i, j \in 1..4 : res.options[i] = res.options[j] => i = j

\* C17: generateMultipleChoiceOptions returns the insufficient-data error
\* whenever the category's words and all words together hold fewer than 3
\* distinct translations that differ from the correct answer and come from
\* words other than the asked one (the random source working).
C17_InsufficientDataError ==
    (Generated /\ arg.fails = "none" /\ Cardinality(UsableAnswers) < 3)
        => res.status = "error"

\* C18: if the random source fails at a draw, in the shuffle or for
\* correctIndex, generateMultipleChoiceOptions still completes with a valid
\* result and correctIndex in 0..3; a failure of the random source never
\* aborts or crashes the operation.
C18_RandomFailureFallsBack ==
    (Generated /\ arg.fails # "none" /\ res.status # "error") =>
        /\ res.status = "ok"
        /\ res.correctIndex \in 0..3
        /\ Len(res.options) = 4

\* the goroutines whose Review has been applied to session s
Applied(s) == {i \in 1..Len(tasks) : tasks[i].session = s /\ tasks[i].pc # "review"}
\* the goroutines between their Review and the end of their transaction
InFlight(s) == {i \in 1..Len(tasks) : tasks[i].session = s /\ tasks[i].pc = "save"}

\* C11: a review whose rating is not one of the four values 1..4 is rejected
\* and the card is left unchanged: no reviewCount increment, no difficulty or
\* stability change, nothing persisted.
C11_InvalidRatingRejected ==
    /\ (Reviewed /\ call.rating \notin Ratings) =>
          /\ card.reviewCount = call.reviewCount
          /\ card.difficulty = call.difficulty
          /\ card.stability = call.stability
    /\ \A k \in 1..Len(history) : history[k].rating \in Ratings

\* C19: persisting a processed review is all-or-nothing: whatever the step
\* at which a SaveProgressAndHistory fails, the store holds for each word
\* either a progress row and its review history or neither.
C19_ProgressAndHistoryTogether ==
    /\ \A k \in 1..Len(history) : \E r \in rows : r.word = history[k].word
    /\ \A r \in rows : \E k \in 1..Len(history) : history[k].word = r.word

\* C20: reviews of the same user-item pair are serialized: at most one
\* ProcessReview is in flight on a session's card at a time, and each
\* presented question increases the card's reviewCount by at most 1.
C20_OneReviewPerQuestion ==
    \A s \in 1..Len(sessions) :
        /\ Cardinality(InFlight(s)) <= 1
        /\ Cardinality(Applied(s)) <= 1

Reminded == reminded # NoReminder

\* C21: with the default reminder configuration reminders are sent only
\* during active hours: no reminder is sent when the local hour h satisfies
\* h >= 22 or h < 8.
C21_NoReminderInQuietHours ==
    Reminded => (HourOfDay(reminded.at) < 22 /\ HourOfDay(reminded.at) >= 8)

\* C22: a user who has disabled Smart Reminders receives no reminder: no
\* reminder is sent to a user whose smart_reminders_enabled preference is
\* false at that moment.
C22_NoReminderWhenDisabled ==
    Reminded => reminded.enabled

\* C23: within one run of the reminder service no user is sent more than
\* MaxRemindersPerDay (3) reminders on the same calendar day.
C23_AtMostThreePerDay ==
    Reminded => reminded.onDay <= MaxRemindersPerDay

\* C30: any two consecutive reminders sent to the same user within one run
\* of the reminder service are at least MinReminderInterval (4 hours) apart.
C30_FourHoursApart ==
    (Reminded /\ reminded.prev # ZeroTime) =>
        reminded.at - reminded.prev >= MinReminderInterval

\* a second reminder exactly four hours after the clock reading of the first
C30_Witness ==
    /\ Reminded
    /\ reminded.prev # ZeroTime
    /\ reminded.at - reminded.prev = MinReminderInterval
    /\ reminderState.RemindersToday >= 2

\* C24: a learning session carries a grammar tip only if the user's
\* grammar_tips_enabled preference was true when the session was built, and
\* after the user has toggled grammar tips off no session created afterwards
\* has a grammar tip.
C24_TipOnlyWhenEnabled ==
    \A i \in 1..Len(sessions) :
        sessions[i].GrammarTip =>
            (sessions[i].enabled /\ ~sessions[i].toggledOff)

\* no map operation has overlapped a conflicting one
NoRace == \A i \in 1..Len(tasks) : ~tasks[i].raced

\* ProcessReview has been applied to its session by goroutine i
ReviewApplied(i) ==
    /\ tasks[i].update = "rating_3"
    /\ tasks[i].pc \in {"failed", "delete", "mapdelete", "GetNextDueWord",
                        "store", "mapassign", "finished"}

\* C25: a rating is accepted for a session only after the user has answered
\* that session's multiple-choice question: ProcessReview is never applied
\* to a session for which no choice callback was handled.
C25_RatingOnlyAfterChoice ==
    \A i \in 1..Len(tasks) :
        (ReviewApplied(i) /\ NoRace) =>
            \E j \in 1..Len(tasks) :
                /\ tasks[j].update = "choice_0"
                /\ tasks[j].pc = "answered"
                /\ tasks[j].session = tasks[i].session

\* the goroutine has passed the debounce test
Processed(i) ==
    /\ tasks[i].update # "learn"
    /\ tasks[i].pc \notin {"isRecentClick", "ignored"}

\* C27: click debouncing: of the callbacks of the user for the same action
\* that arrive within one second of each other at most one is processed and
\* the others are ignored, also when concurrent goroutines handle them.
C27_OneClickProcessed ==
    \A i, j \in 1..Len(tasks) :
        (/\ i # j
         /\ tasks[i].update = tasks[j].update
         /\ tasks[i].at = tasks[j].at
         /\ Processed(i)) => ~Processed(j)

\* C28: accesses to the active-session map are mutually exclusive: a store or
\* delete of a session never overlaps another read or write of the map.
C28_MapAccessesExclusive ==
    \A i, j \in 1..Len(tasks) :
        (i # j /\ InMapOp(i, MapWrites)) => ~InMapOp(j, MapReads \cup MapWrites)

\* C26: if ProcessReview fails because persistence fails, the session's card
\* is as it was before the call, so that a later retry of the rating advances
\* the stored card by exactly one transition.  Stated for the first rating
\* goroutine of a run, alone and ended by a failed save: nothing is stored
\* and the card of its session is the card Review was given.
C26_FailedSaveLeavesCard ==
    (/\ Len(tasks) = 1
     /\ tasks[1].pc = "done"
     /\ tasks[1].rating \in Ratings
     /\ history = <<>>) =>
        LET c == sessions[tasks[1].session].progress.card
        IN  /\ c.reviewCount = call.reviewCount
            /\ c.state = call.state
            /\ c.stability = call.stability
            /\ c.difficulty = call.difficulty

====
